---- MODULE Spec2Model ----
(***************************************************************************)
(* A model of typing_engine/typing.py: the Field / vField descriptors and  *)
(* the Typing2 model container.                                            *)
(*                                                                         *)
(* Python values are records [t, n, k, items]: t is the Python type, n the *)
(* number an int holds (or the number a str spells), items the elements of *)
(* a list or tuple or the entries of a dict, k the key when the value is   *)
(* an entry of a dict.  Field objects and their chain lists live in heaps  *)
(* (fields, lists) because the code shares and copies them by reference.   *)
(***************************************************************************)
EXTENDS Integers, Sequences, FiniteSets, TLC

VARIABLES
    fields,   \* heap of Field objects: id -> record of the attributes of Field.__init__
    lists,    \* heap of the setters_funcs / getters_funcs list objects: ref -> sequence
    store,    \* instance id -> the instance __dict__ (storage key -> value)
    classes,  \* class -> its __dict__ of Field attributes, its _Typing2__fields, its __init_done
    last,     \* the operation that ran last, with its arguments
    ret,      \* what the last operation returned (or the exception it raised)
    calls,    \* the callbacks the last operation invoked, in order: <<function, argument>>
    regS,     \* Field id -> setters in the order setters() registered them since the last clear
    regG,     \* Field id -> getters in the order getters() registered them since the last clear
    pc,       \* thread -> where it is in Typing2.__init__ / __one_time_init
    tcls,     \* thread -> the class it is constructing an instance of (top_cls)
    pos,      \* thread -> <<index in the MRO, index in that class's __dict__>> of its scan
    lock,     \* the thread that holds Typing2.__init_lock, 0 when it is free
    runs,     \* class -> how many times the resolution body was entered for it
    hooks     \* class -> the class its own transform_fields constructs, if it has one

sched == <<pc, tcls, pos, lock, runs, hooks>>

vars == <<fields, lists, store, classes, last, ret, calls, regS, regG, sched>>

----------------------------------------------------------------------------
(* Bounds *)

\* ints are 0 .. Modulus-1; the callbacks below compute modulo Modulus
Modulus == 3
\* longest setter or getter chain a field is given
MaxChain == 2

----------------------------------------------------------------------------
(* Python values *)

V(t, n, items) == [t |-> t, n |-> n, k |-> "", items |-> items]

None == V("NoneType", 0, <<>>)

PyInt(n) == V("int", n, <<>>)

PyStr(n) == V("str", n, <<>>)

PyTuple(n) == V("tuple", 0, <<PyInt(n)>>)

PyList(items) == V("list", 0, items)

Raised(exc) == V(exc, 0, <<>>)

\* a dict, in insertion order: its entries are values that carry their key
PyDict(entries) == V("dict", 0, entries)

Entry(key, value) == [value EXCEPT !.k = key]

ValueOf(entry) == [entry EXCEPT !.k = ""]

Keys(dict) == {dict.items[i].k : i \in 1 .. Len(dict.items)}

\* dict[key] = value: a key that is present keeps its place
DictSet(dict, key, value) ==
    IF key \in Keys(dict)
    THEN [dict EXCEPT !.items = [i \in 1 .. Len(dict.items) |->
                                    IF dict.items[i].k = key THEN Entry(key, value)
                                    ELSE dict.items[i]]]
    ELSE [dict EXCEPT !.items = Append(@, Entry(key, value))]

\* dict[key], for a key that is present
DictGet(dict, key) ==
    ValueOf(dict.items[CHOOSE i \in 1 .. Len(dict.items) : dict.items[i].k = key])

\* Python's == on two dicts of scalars: the same entries, in any order
DictEq(d1, d2) ==
    {d1.items[i] : i \in 1 .. Len(d1.items)} = {d2.items[i] : i \in 1 .. Len(d2.items)}

Ints == {PyInt(n) : n \in 0 .. Modulus - 1}

\* the values the modelled callers write or load
Scalars == Ints \cup {None, PyStr(1)}

----------------------------------------------------------------------------
(* The callbacks a model author registers.  NoFunc is Python's None in a   *)
(* converter slot.  Inc and Dbl do not commute, so the order of a chain is *)
(* visible in its result; ToInt and ToStr are the int and str converters   *)
(* of the tests.  All are total: a callback that raises is not modelled.   *)

NoFunc == "None"

Call(func, value) ==
    CASE func = "Inc" -> IF value.t = "int" THEN PyInt((value.n + 1) % Modulus) ELSE value
      [] func = "Dbl" -> IF value.t = "int" THEN PyInt((2 * value.n) % Modulus) ELSE value
      [] func = "ToInt" -> IF value.t = "str" THEN PyInt(value.n % Modulus) ELSE value
      [] func = "ToStr" -> IF value.t = "int" THEN PyStr(value.n) ELSE value
      [] OTHER -> value

ChainFuncs == {"Inc", "Dbl"}

LoadsConverters == {NoFunc, "ToInt", "Inc"}

DumpsConverters == {NoFunc, "ToStr"}

\* for func in funcs: value = func(instance, value)
RECURSIVE RunFuncs(_, _)
RunFuncs(funcs, value) ==
    IF funcs = <<>> THEN value
    ELSE RunFuncs(Tail(funcs), Call(Head(funcs), value))

\* the calls RunFuncs makes, in order
RECURSIVE LogFuncs(_, _)
LogFuncs(funcs, value) ==
    IF funcs = <<>> THEN <<>>
    ELSE <<<<Head(funcs), value>>>> \o LogFuncs(Tail(funcs), Call(Head(funcs), value))

----------------------------------------------------------------------------
(* Field *)

\* setattr(instance, key, value) on an instance __dict__
SetAttr(slots, key, value) ==
    [k \in DOMAIN slots \cup {key} |-> IF k = key THEN value ELSE slots[k]]

\* delattr(instance, key), where the key is present
DelAttr(slots, key) == [k \in DOMAIN slots \ {key} |-> slots[k]]

NoName == "None"

InstanceNameOf(name) == IF name = NoName \/ name = "" THEN NoName ELSE "_" \o name

\* Field.__init__, with the two list objects it creates at sref and gref
NewField(kind, name, instanciator, default, sref, gref) ==
    [kind |-> kind,
     name |-> name,
     instanciator |-> instanciator,
     default_value |-> default,
     inside_instanciator |-> NoFunc,
     is_list |-> FALSE,
     hidden |-> FALSE,
     mapping_name |-> NoName,
     dumps_converter |-> NoFunc,
     loads_converter |-> NoFunc,
     instance_name |-> InstanceNameOf(name),
     setters_funcs |-> sref,
     getters_funcs |-> gref]

set_name(f, name) == [f EXCEPT !.name = name, !.instance_name = InstanceNameOf(name)]

get_name(f, no_mapping) ==
    IF ~no_mapping /\ f.mapping_name # NoName THEN f.mapping_name ELSE f.name

\* a match that knows the field's own name only
match_own_name(f, name) == f.name = name

match(f, name) ==
    \/ f.name = name
    \/ f.mapping_name # NoName /\ f.mapping_name # "" /\ f.mapping_name = name

loads_convert(f, value) ==
    IF f.loads_converter = NoFunc \/ value = None THEN value
    ELSE Call(f.loads_converter, value)

dumps_convert(f, value) ==
    IF f.dumps_converter = NoFunc \/ value = None THEN value
    ELSE Call(f.dumps_converter, value)

\* the instanciators of the model: none (the static default) or list
get_instance(f) ==
    IF f.instanciator = NoFunc THEN f.default_value
    ELSE PyList(<<>>)

\* Field.__set__: loads converter, then the setters in list order, then the store
Field_set(f, slots, value) ==
    SetAttr(slots, f.instance_name, RunFuncs(lists[f.setters_funcs], loads_convert(f, value)))

\* the callbacks of Field.__set__ (vField.__set__ makes the same calls)
SetCalls(f, value) ==
    (IF f.loads_converter = NoFunc \/ value = None THEN <<>>
     ELSE <<<<f.loads_converter, value>>>>)
    \o LogFuncs(lists[f.setters_funcs], loads_convert(f, value))

\* a __get__ that stores the materialized value with no converter and no setter
Field_get_plain_store(f, slots) ==
    LET filled == IF f.instance_name \in DOMAIN slots THEN slots
                  ELSE SetAttr(slots, f.instance_name, get_instance(f))
    IN [slots |-> filled,
        value |-> RunFuncs(lists[f.getters_funcs], filled[f.instance_name])]

\* Field.__get__: the instance __dict__ after the read and the value returned
Field_get(f, slots) ==
    LET filled == IF f.instance_name \in DOMAIN slots THEN slots
                  ELSE Field_set(f, SetAttr(slots, f.instance_name, None), get_instance(f))
    IN [slots |-> filled,
        value |-> RunFuncs(lists[f.getters_funcs], filled[f.instance_name])]

GetCalls(f, slots) ==
    (IF f.instance_name \in DOMAIN slots THEN <<>> ELSE SetCalls(f, get_instance(f)))
    \o LogFuncs(lists[f.getters_funcs], Field_get(f, slots).slots[f.instance_name])

\* a __delete__ that clears the slot to None and keeps it
Field_delete_to_none(f, slots) ==
    IF f.instance_name \in DOMAIN slots THEN SetAttr(slots, f.instance_name, None) ELSE slots

\* Field.__delete__
Field_delete(f, slots) ==
    IF f.instance_name \in DOMAIN slots THEN DelAttr(slots, f.instance_name) ELSE slots

\* Field.direct_set
direct_set(f, slots, value, bypass_converter) ==
    SetAttr(slots, f.instance_name,
            IF bypass_converter THEN value ELSE loads_convert(f, value))

\* Field.direct_get: getattr raises AttributeError when the slot is missing
direct_get(f, slots) ==
    IF f.instance_name \in DOMAIN slots THEN slots[f.instance_name]
    ELSE Raised("AttributeError")

\* vField.__get__: the getters applied to the static default
vField_get(f, slots) ==
    [slots |-> slots, value |-> RunFuncs(lists[f.getters_funcs], f.default_value)]

\* a vField.__set__ that keeps what the setters return
vField_set_storing(f, slots, value) ==
    SetAttr(slots, f.instance_name, RunFuncs(lists[f.setters_funcs], loads_convert(f, value)))

\* vField.__set__: converter and setters run, nothing is stored
vField_set(f, slots, value) == slots

\* vField.__delete__
vField_delete(f, slots) == slots

\* the descriptor protocol: type(field) picks the method
Descr_get(f, slots) == IF f.kind = "vField" THEN vField_get(f, slots) ELSE Field_get(f, slots)

Descr_set(f, slots, value) ==
    IF f.kind = "vField" THEN vField_set(f, slots, value) ELSE Field_set(f, slots, value)

Descr_delete(f, slots) ==
    IF f.kind = "vField" THEN vField_delete(f, slots) ELSE Field_delete(f, slots)

Descr_getcalls(f, slots) ==
    IF f.kind = "vField" THEN LogFuncs(lists[f.getters_funcs], f.default_value)
    ELSE GetCalls(f, slots)

\* Field.direct_set / vField.direct_set: the new __dict__, and what the call returns
Descr_direct_set(f, slots, value, bypass_converter) ==
    IF f.kind = "vField" THEN [slots |-> slots, value |-> Raised("UnsupportedOperation")]
    ELSE [slots |-> direct_set(f, slots, value, bypass_converter), value |-> None]

\* Field.direct_get / vField.direct_get
Descr_direct_get(f, slots) ==
    IF f.kind = "vField" THEN Raised("UnsupportedOperation") ELSE direct_get(f, slots)

\* a setters() that inserts on top, the way getters() does
setters_on_top(f, function, clear) ==
    LET kept == IF clear THEN <<>> ELSE lists[f.setters_funcs]
    IN IF function # NoFunc THEN <<function>> \o kept ELSE kept

\* Field.setters on a setters_funcs list that holds funcs
setters_list(funcs, function, clear) ==
    LET kept == IF clear THEN <<>> ELSE funcs
    IN IF function # NoFunc THEN Append(kept, function) ELSE kept

\* Field.setters: the content of the setters_funcs list afterwards
setters(f, function, clear) == setters_list(lists[f.setters_funcs], function, clear)

\* a getters() that appends, the way setters() does
getters_appending(f, function, clear) ==
    LET kept == IF clear THEN <<>> ELSE lists[f.getters_funcs]
    IN IF function # NoFunc THEN Append(kept, function) ELSE kept

\* Field.getters on a getters_funcs list that holds funcs
getters_list(funcs, function, clear) ==
    LET kept == IF clear THEN <<>> ELSE funcs
    IN IF function # NoFunc THEN <<function>> \o kept ELSE kept

\* Field.getters: the content of the getters_funcs list afterwards
getters(f, function, clear) == getters_list(lists[f.getters_funcs], function, clear)

\* the loops of Field.copy: field.setters(func) for each func of the original
RECURSIVE copy_setters(_, _)
copy_setters(funcs, copied) ==
    IF funcs = <<>> THEN copied
    ELSE copy_setters(Tail(funcs), setters_list(copied, Head(funcs), FALSE))

\* field.getters(func) for each func of the original
RECURSIVE copy_getters(_, _)
copy_getters(funcs, copied) ==
    IF funcs = <<>> THEN copied
    ELSE copy_getters(Tail(funcs), getters_list(copied, Head(funcs), FALSE))

\* Field.copy: the new Field object, whose lists are the new objects sref and gref
copy(f, sref, gref) ==
    [NewField(f.kind, NoName, NoFunc, None, sref, gref) EXCEPT
        !.name = f.name,
        !.instanciator = f.instanciator,
        !.inside_instanciator = f.inside_instanciator,
        !.is_list = f.is_list,
        !.default_value = f.default_value,
        !.hidden = f.hidden,
        !.mapping_name = f.mapping_name,
        !.dumps_converter = f.dumps_converter,
        !.loads_converter = f.loads_converter,
        !.instance_name = f.instance_name]

\* Field.converter: None leaves the converter that is set
converter(f, loads, dumps) ==
    [f EXCEPT !.dumps_converter = IF dumps # NoFunc THEN dumps ELSE @,
              !.loads_converter = IF loads # NoFunc THEN loads ELSE @]

\* Field.default
default(f, value) == [f EXCEPT !.default_value = value]

\* Field.mapping
mapping(f, mapping_name) == [f EXCEPT !.mapping_name = mapping_name]

\* Field.hide
hide(f) == [f EXCEPT !.hidden = TRUE]

\* Field.unhide
unhide(f) == [f EXCEPT !.hidden = FALSE]

\* Field.list_of, with the default instanciator list
list_of(f, inside_instanciator) ==
    [f EXCEPT !.instanciator = "list", !.inside_instanciator = inside_instanciator,
              !.is_list = TRUE]

----------------------------------------------------------------------------
(* History: what the last operation was.  slot is the stored value of the  *)
(* field before the operation (had tells whether there was one).           *)

Op(op, fid, value, flag, slots) ==
    [op |-> op, fid |-> fid, value |-> value, flag |-> flag,
     had |-> fid # 0 /\ fields[fid].instance_name \in DOMAIN slots,
     slot |-> IF fid # 0 /\ fields[fid].instance_name \in DOMAIN slots
              THEN slots[fields[fid].instance_name] ELSE None]

NoOp == [op |-> "init", fid |-> 0, value |-> None, flag |-> FALSE, had |-> FALSE, slot |-> None]

NoDict == [k \in {} |-> None]

\* no thread is constructing anything
NoThreads ==
    /\ pc = <<>> /\ tcls = <<>> /\ pos = <<>>
    /\ lock = 0
    /\ runs = <<>>
    /\ hooks = <<>>

----------------------------------------------------------------------------
(* SpecField: one Field (or vField) object, named "a", and one instance.   *)
(* The chains and the converter are configured by the Field methods; the   *)
(* instance is read, written and deleted through the descriptor.           *)

WriteValues == {None, PyInt(1), PyStr(1)}

Defaults == {None, PyInt(1)}

FInit ==
    /\ \E kind \in {"Field", "vField"}, instanciator \in {NoFunc, "list"}, d \in Defaults :
          /\ kind = "vField" => instanciator = NoFunc
          /\ fields = [i \in {1} |-> NewField(kind, "a", instanciator, d, 1, 2)]
    /\ lists = [r \in {1, 2} |-> <<>>]
    /\ store = [i \in {1} |-> NoDict]
    /\ classes = <<>>
    /\ NoThreads
    /\ last = NoOp
    /\ ret = None
    /\ calls = <<>>
    /\ regS = [i \in {1} |-> <<>>]
    /\ regG = [i \in {1} |-> <<>>]

FSetters ==
    \E function \in ChainFuncs \cup {NoFunc}, clear \in BOOLEAN :
        /\ Len(setters(fields[1], function, clear)) <= MaxChain
        /\ lists' = [lists EXCEPT ![fields[1].setters_funcs] = setters(fields[1], function, clear)]
        /\ regS' = [regS EXCEPT ![1] = (IF clear THEN <<>> ELSE @)
                                        \o (IF function # NoFunc THEN <<function>> ELSE <<>>)]
        /\ last' = NoOp /\ ret' = None /\ calls' = <<>>
        /\ UNCHANGED <<sched, fields, store, classes, regG>>

FGetters ==
    \E function \in ChainFuncs \cup {NoFunc}, clear \in BOOLEAN :
        /\ Len(getters(fields[1], function, clear)) <= MaxChain
        /\ lists' = [lists EXCEPT ![fields[1].getters_funcs] = getters(fields[1], function, clear)]
        /\ regG' = [regG EXCEPT ![1] = (IF clear THEN <<>> ELSE @)
                                        \o (IF function # NoFunc THEN <<function>> ELSE <<>>)]
        /\ last' = NoOp /\ ret' = None /\ calls' = <<>>
        /\ UNCHANGED <<sched, fields, store, classes, regS>>

FConverter ==
    \E loads \in LoadsConverters :
        /\ fields' = [fields EXCEPT ![1] = converter(@, loads, NoFunc)]
        /\ last' = NoOp /\ ret' = None /\ calls' = <<>>
        /\ UNCHANGED <<sched, lists, store, classes, regS, regG>>

FWrite ==
    \E value \in WriteValues :
        /\ store' = [store EXCEPT ![1] = Descr_set(fields[1], @, value)]
        /\ last' = Op("set", 1, value, FALSE, store[1])
        /\ ret' = None
        /\ calls' = SetCalls(fields[1], value)
        /\ UNCHANGED <<sched, fields, lists, classes, regS, regG>>

FRead ==
    /\ store' = [store EXCEPT ![1] = Descr_get(fields[1], @).slots]
    /\ last' = Op("get", 1, None, FALSE, store[1])
    /\ ret' = Descr_get(fields[1], store[1]).value
    /\ calls' = Descr_getcalls(fields[1], store[1])
    /\ UNCHANGED <<sched, fields, lists, classes, regS, regG>>

FDelete ==
    /\ store' = [store EXCEPT ![1] = Descr_delete(fields[1], @)]
    /\ last' = Op("delete", 1, None, FALSE, store[1])
    /\ ret' = None /\ calls' = <<>>
    /\ UNCHANGED <<sched, fields, lists, classes, regS, regG>>

FDirectSet ==
    \E value \in WriteValues, bypass_converter \in BOOLEAN :
        /\ store' = [store EXCEPT ![1] =
                        Descr_direct_set(fields[1], @, value, bypass_converter).slots]
        /\ last' = Op("direct_set", 1, value, bypass_converter, store[1])
        /\ ret' = Descr_direct_set(fields[1], store[1], value, bypass_converter).value
        /\ calls' = <<>>
        /\ UNCHANGED <<sched, fields, lists, classes, regS, regG>>

FDirectGet ==
    /\ last' = Op("direct_get", 1, None, FALSE, store[1])
    /\ ret' = Descr_direct_get(fields[1], store[1])
    /\ calls' = <<>>
    /\ UNCHANGED <<sched, fields, lists, store, classes, regS, regG>>

FNext ==
    \/ FSetters \/ FGetters \/ FConverter
    \/ FWrite \/ FRead \/ FDelete \/ FDirectSet \/ FDirectGet

SpecField == FInit /\ [][FNext]_vars

----------------------------------------------------------------------------
(* Claims on one field (SpecField) *)

\* sn(...s1(value)...) for funcs = <<s1, ..., sn>>
RECURSIVE Composed(_, _)
Composed(funcs, value) ==
    IF funcs = <<>> THEN value
    ELSE Call(funcs[Len(funcs)], Composed(SubSeq(funcs, 1, Len(funcs) - 1), value))

Reversed(funcs) == [i \in 1 .. Len(funcs) |-> funcs[Len(funcs) + 1 - i]]

\* c(value): the loads converter, the identity when none is set or the value is None
Converted(f, value) ==
    IF f.loads_converter = NoFunc \/ value = None THEN value
    ELSE Call(f.loads_converter, value)

FuncsOf(log) == [i \in 1 .. Len(log) |-> log[i][1]]

Stored(fid) == store[1][fields[fid].instance_name]

\* C4: a write of v to a Field whose setters were registered as s1, ..., sn stores
\* sn(...s1(c(v))...), c the loads converter (the identity when unset or when v is
\* None); the converter is called first, then the setters in registration order; with
\* no setter registered since the last clear, c(v) is stored.
C4_WriteContract ==
    (last.op = "set" /\ fields[1].kind = "Field") =>
        /\ "_a" \in DOMAIN store[1]
        /\ Stored(1) = Composed(regS[1], Converted(fields[1], last.value))
        /\ FuncsOf(calls) =
              (IF fields[1].loads_converter = NoFunc \/ last.value = None THEN <<>>
               ELSE <<fields[1].loads_converter>>) \o regS[1]
        /\ regS[1] = <<>> => Stored(1) = Converted(fields[1], last.value)

C4_Witness ==
    /\ last.op = "set" /\ fields[1].kind = "Field"
    /\ regS[1] = <<"Inc", "Dbl">>
    /\ fields[1].loads_converter = "ToInt"
    /\ last.value = PyStr(1)
    /\ Stored(1) = Call("Dbl", Call("Inc", PyInt(1)))
    /\ Stored(1) # Call("Inc", Call("Dbl", PyInt(1)))

\* C5: with getters registered as g1, ..., gn a read of a Field returns
\* g1(...gn(stored)...): the last registered getter runs first; and a read of a field
\* that holds a value leaves that value as it was.
C5_GetterOrder ==
    (last.op = "get" /\ fields[1].kind = "Field") =>
        /\ "_a" \in DOMAIN store[1]
        /\ ret = Composed(Reversed(regG[1]), Stored(1))
        /\ FuncsOf(calls) = (IF last.had THEN <<>> ELSE FuncsOf(SetCalls(fields[1], get_instance(fields[1]))))
                            \o Reversed(regG[1])
        /\ last.had => Stored(1) = last.slot

C5_Witness ==
    /\ last.op = "get" /\ fields[1].kind = "Field"
    /\ regG[1] = <<"Inc", "Dbl">>
    /\ last.had /\ last.slot = PyInt(1) /\ Stored(1) = PyInt(1)
    /\ ret = Call("Inc", Call("Dbl", PyInt(1)))
    /\ ret # Call("Dbl", Call("Inc", PyInt(1)))

\* C6 as stated: a read of a Field with no stored value stores exactly the
\* instanciated / default value, whatever setters are registered.
C6_StoredWithoutSetters ==
    (last.op = "get" /\ fields[1].kind = "Field" /\ ~last.had) =>
        Stored(1) = get_instance(fields[1])

\* C6 amended: a read of a Field with no stored value stores the instanciated /
\* default value through the write path: the loads converter (skipped for None), then
\* the setters in registration order.
C6_MaterializedThroughWritePath ==
    (last.op = "get" /\ fields[1].kind = "Field" /\ ~last.had) =>
        /\ "_a" \in DOMAIN store[1]
        /\ Stored(1) = Composed(regS[1], Converted(fields[1], get_instance(fields[1])))

C6_Witness ==
    /\ last.op = "get" /\ fields[1].kind = "Field" /\ ~last.had
    /\ regS[1] = <<"Inc">>
    /\ fields[1].instanciator = NoFunc /\ fields[1].default_value = PyInt(1)
    /\ Stored(1) = PyInt(2 % Modulus)

\* C14: on a regular Field direct_get and direct_set never fail, with or without a
\* stored value: direct_get returns the stored value as it is (no getters), and
\* direct_set stores the value through the loads converter, or unchanged when the
\* converter is bypassed, without the setters.
C14_DirectAccess ==
    fields[1].kind = "Field" =>
        /\ last.op = "direct_get" =>
              /\ ret # Raised("AttributeError")
              /\ last.had => ret = last.slot
        /\ last.op = "direct_set" =>
              /\ ret = None
              /\ "_a" \in DOMAIN store[1]
              /\ Stored(1) = IF last.flag THEN last.value
                             ELSE Converted(fields[1], last.value)

----------------------------------------------------------------------------
(* The JSON codec behind encode() and loads_from_bytes(): json.dumps       *)
(* writes a text, here its sequence of tokens ({"test": 20} is             *)
(* { "test": 20 }), and json.loads parses it.  A tuple is written as an    *)
(* array and read back as a list.                                          *)

Tok(kind) == V(kind, 0, <<>>)

RECURSIVE JsonTokens(_)
RECURSIVE JsonItems(_, _)
JsonTokens(value) ==
    CASE value.t = "int" -> <<V("number", value.n, <<>>)>>
      [] value.t = "str" -> <<V("string", value.n, <<>>)>>
      [] value.t = "NoneType" -> <<Tok("null")>>
      [] value.t \in {"list", "tuple"} -> <<Tok("[")>> \o JsonItems(value.items, FALSE) \o <<Tok("]")>>
      [] value.t = "dict" -> <<Tok("{")>> \o JsonItems(value.items, TRUE) \o <<Tok("}")>>

JsonItems(items, keyed) ==
    IF items = <<>> THEN <<>>
    ELSE (IF keyed THEN <<Entry(Head(items).k, Tok("key"))>> ELSE <<>>)
         \o JsonTokens(ValueOf(Head(items))) \o JsonItems(Tail(items), keyed)

RECURSIVE ParseValue(_)
RECURSIVE ParseArray(_, _)
RECURSIVE ParseObject(_, _)
ParseValue(toks) ==
    LET tok == Head(toks)
    IN CASE tok.t = "number" -> [value |-> PyInt(tok.n), rest |-> Tail(toks)]
         [] tok.t = "string" -> [value |-> PyStr(tok.n), rest |-> Tail(toks)]
         [] tok.t = "null" -> [value |-> None, rest |-> Tail(toks)]
         [] tok.t = "[" -> ParseArray(Tail(toks), <<>>)
         [] tok.t = "{" -> ParseObject(Tail(toks), PyDict(<<>>))

ParseArray(toks, items) ==
    IF Head(toks).t = "]" THEN [value |-> PyList(items), rest |-> Tail(toks)]
    ELSE LET r == ParseValue(toks) IN ParseArray(r.rest, Append(items, r.value))

ParseObject(toks, dict) ==
    IF Head(toks).t = "}" THEN [value |-> dict, rest |-> Tail(toks)]
    ELSE LET r == ParseValue(Tail(toks))
         IN ParseObject(r.rest, DictSet(dict, Head(toks).k, r.value))

\* json.dumps(value).encode()
json_dumps(value) == V("bytes", 0, JsonTokens(value))

\* json.loads(data.decode())
json_loads(data) == ParseValue(data.items).value

----------------------------------------------------------------------------
(* Typing2.  An operation on an instance takes and returns a record        *)
(* [slots, calls, out]: the instance __dict__, the callbacks invoked so    *)
(* far and the value produced.                                             *)

\* the method resolution order of the modelled classes, without object
Mro(cls) ==
    CASE cls = "T" -> <<"T">>
      [] cls = "A" -> <<"A">>
      [] cls = "B" -> <<"B", "A">>
      [] cls = "C" -> <<"C", "B", "A">>
      [] cls = "P" -> <<"P">>
      [] cls = "E" -> <<"E">>

\* the class attribute `name` of an instance of cls: the Field id, 0 when there is none
LookupAttr(cls, name) ==
    LET mro == Mro(cls)
        hits == {i \in 1 .. Len(mro) : name \in DOMAIN classes[mro[i]].dict}
    IN IF hits = {} THEN 0
       ELSE classes[mro[CHOOSE i \in hits : \A j \in hits : i <= j]].dict[name]

\* Typing2.get_fields: self.__fields is the list of the first class of the MRO that has one
get_fields(cls) ==
    LET mro == Mro(cls)
        hits == {i \in 1 .. Len(mro) : classes[mro[i]].has_fields}
    IN IF hits = {} THEN <<>>
       ELSE classes[mro[CHOOSE i \in hits : \A j \in hits : i <= j]].fields

\* Typing2.get_field: the first field of the list that matches, 0 for None
get_field(cls, name) ==
    LET fs == get_fields(cls)
        hits == {i \in 1 .. Len(fs) : match(fields[fs[i]], name)}
    IN IF hits = {} THEN 0 ELSE fs[CHOOSE i \in hits : \A j \in hits : i <= j]

\* a second test that never finds the class initialized
init_done_not_retested(cls) == FALSE

\* __one_time_init, the second attempt: top_cls.__dict__.get("_Typing2__init_done", False)
\* with the lock held
init_done_retested(cls) == classes[cls].init_done

Acc(slots, log, out) == [slots |-> slots, calls |-> log, out |-> out]

\* getattr(self, name, None) where name is the name of a field
GetAttr(cls, acc, name) ==
    LET fid == LookupAttr(cls, name)
    IN IF fid = 0 THEN Acc(acc.slots, acc.calls, None)
       ELSE Acc(Descr_get(fields[fid], acc.slots).slots,
                acc.calls \o Descr_getcalls(fields[fid], acc.slots),
                Descr_get(fields[fid], acc.slots).value)

\* setattr(self, name, value) where name is the name of a field
PutAttr(cls, acc, name, value) ==
    LET fid == LookupAttr(cls, name)
    IN Acc(Descr_set(fields[fid], acc.slots, value),
           acc.calls \o SetCalls(fields[fid], value), None)

\* Typing2.__dump, for values that hold no model
dump_value(value, raw, is_list) ==
    IF is_list THEN PyList(value.items) ELSE value

\* a dumps that leaves hidden fields out of the raw dump too
RECURSIVE dumps_from_hiding(_, _, _, _)
dumps_from_hiding(cls, acc, raw, i) ==
    IF i > Len(get_fields(cls)) THEN acc
    ELSE LET f == fields[get_fields(cls)[i]]
             got == GetAttr(cls, acc, f.name)
             value == IF raw THEN got.out ELSE dumps_convert(f, got.out)
         IN IF f.hidden THEN dumps_from_hiding(cls, acc, raw, i + 1)
            ELSE dumps_from_hiding(cls,
                                   Acc(got.slots, got.calls,
                                       DictSet(acc.out, get_name(f, raw),
                                               dump_value(value, raw, f.is_list))),
                                   raw, i + 1)

\* Typing2.dumps from the i-th field on; acc.out is the dict built so far
RECURSIVE dumps_from(_, _, _, _)
dumps_from(cls, acc, raw, i) ==
    IF i > Len(get_fields(cls)) THEN acc
    ELSE LET f == fields[get_fields(cls)[i]]
             got == GetAttr(cls, acc, f.name)
             value == IF raw THEN got.out ELSE dumps_convert(f, got.out)
             log == IF raw \/ f.dumps_converter = NoFunc \/ got.out = None THEN <<>>
                    ELSE <<<<f.dumps_converter, got.out>>>>
         IN IF ~raw /\ f.hidden THEN dumps_from(cls, acc, raw, i + 1)
            ELSE dumps_from(cls,
                            Acc(got.slots, got.calls \o log,
                                DictSet(acc.out, get_name(f, raw),
                                        dump_value(value, raw, f.is_list))),
                            raw, i + 1)

\* Typing2.dumps
dumps(cls, acc, raw) == dumps_from(cls, Acc(acc.slots, acc.calls, PyDict(<<>>)), raw, 1)

\* a test for None only: `data is None`
Falsy_none_only(data) == data = None

\* `not data`
Falsy(data) == data = None \/ (data.t \in {"dict", "list", "bytes"} /\ data.items = <<>>)

\* the loop of Typing2.loads_from_dict from the i-th entry of the data on
RECURSIVE loads_from(_, _, _, _)
loads_from(cls, acc, data, i) ==
    IF i > Len(data.items) THEN acc
    ELSE LET fid == get_field(cls, data.items[i].k)
             variable == GetAttr(cls, acc, fields[fid].name)
         IN IF fid = 0 THEN loads_from(cls, acc, data, i + 1)
            ELSE loads_from(cls,
                            PutAttr(cls, variable, fields[fid].name, ValueOf(data.items[i])),
                            data, i + 1)

\* Typing2.loads_from_dict
loads_from_dict(cls, acc, data) ==
    IF Falsy(data) THEN acc ELSE loads_from(cls, acc, data, 1)

\* Typing2.loads_from_bytes
loads_from_bytes(cls, acc, data) == loads_from_dict(cls, acc, json_loads(data))

\* Typing2.encode
encode(cls, acc) ==
    LET d == dumps(cls, acc, TRUE) IN Acc(d.slots, d.calls, json_dumps(d.out))

\* Typing2.reset from the i-th field on
RECURSIVE reset_from(_, _, _)
reset_from(cls, slots, i) ==
    IF i > Len(get_fields(cls)) THEN slots
    ELSE reset_from(cls, Descr_delete(fields[get_fields(cls)[i]], slots), i + 1)

\* Typing2.reset
reset(cls, slots) == reset_from(cls, slots, 1)

----------------------------------------------------------------------------
(* The operations on an instance m (instance 1) of a resolved class T with *)
(* the fields a and b.  Instance 2 is the instance constructed from m by   *)
(* the last operation, when that was a construction; it is dropped by the  *)
(* next operation.                                                         *)

ModelWrites == [a |-> WriteValues \cup {PyTuple(1)}, b |-> {PyInt(1)}]

LoadKeys == {"a", "b", "A", "zz"}

LoadData ==
    {None, PyDict(<<>>)}
    \cup {PyDict(<<Entry(k, PyStr(1))>>) : k \in LoadKeys}
    \cup {PyDict(<<Entry("zz", PyInt(1)), Entry("a", PyInt(2 % Modulus))>>)}

Name(name) == Entry(name, Tok("name"))

Did(op, fid, value, flag) == Op(op, fid, value, flag, NoDict)

Start(i) == Acc(store[i], <<>>, None)

\* the class T, resolved, with a declared as the Field fa and b as the Field fb
ModelInit(fa, ss, gs, fb) ==
    /\ fields = [i \in {1, 2} |-> IF i = 1 THEN fa ELSE fb]
    /\ lists = [r \in 1 .. 4 |-> IF r = 1 THEN ss ELSE IF r = 2 THEN gs ELSE <<>>]
    /\ regS = [i \in {1, 2} |-> IF i = 1 THEN ss ELSE <<>>]
    /\ regG = [i \in {1, 2} |-> IF i = 1 THEN gs ELSE <<>>]
    /\ classes = [c \in {"T"} |->
                     [dict |-> [n \in {"a", "b"} |-> IF n = "a" THEN 1 ELSE 2],
                      order |-> <<"a", "b">>,
                      fields |-> <<1, 2>>, has_fields |-> TRUE, init_done |-> TRUE]]
    /\ NoThreads
    /\ store = [i \in {1, 2} |-> NoDict]
    /\ last = NoOp
    /\ ret = None
    /\ calls = <<>>

MWrite ==
    \E fid \in {1, 2} : \E value \in ModelWrites[fields[fid].name] :
        LET r == PutAttr("T", Start(1), fields[fid].name, value)
        IN /\ store' = [store EXCEPT ![1] = r.slots, ![2] = NoDict]
           /\ last' = Did("set", fid, value, FALSE)
           /\ ret' = None
           /\ calls' = r.calls
           /\ UNCHANGED <<sched, fields, lists, classes, regS, regG>>

MRead ==
    \E fid \in {1, 2} :
        LET r == GetAttr("T", Start(1), fields[fid].name)
        IN /\ store' = [store EXCEPT ![1] = r.slots, ![2] = NoDict]
           /\ last' = Did("get", fid, None, FALSE)
           /\ ret' = r.out
           /\ calls' = r.calls
           /\ UNCHANGED <<sched, fields, lists, classes, regS, regG>>

MDelete ==
    \E fid \in {1, 2} :
        /\ store' = [store EXCEPT ![1] = Descr_delete(fields[fid], @), ![2] = NoDict]
        /\ last' = Did("delete", fid, None, FALSE)
        /\ ret' = None /\ calls' = <<>>
        /\ UNCHANGED <<sched, fields, lists, classes, regS, regG>>

MDirectSet ==
    \E value \in {PyStr(1)}, bypass_converter \in BOOLEAN :
        /\ store' = [store EXCEPT ![1] =
                        Descr_direct_set(fields[1], @, value, bypass_converter).slots,
                                  ![2] = NoDict]
        /\ last' = Did("direct_set", 1, value, bypass_converter)
        /\ ret' = Descr_direct_set(fields[1], store[1], value, bypass_converter).value
        /\ calls' = <<>>
        /\ UNCHANGED <<sched, fields, lists, classes, regS, regG>>

MDirectGet ==
    /\ store' = [store EXCEPT ![2] = NoDict]
    /\ last' = Did("direct_get", 1, None, FALSE)
    /\ ret' = Descr_direct_get(fields[1], store[1])
    /\ calls' = <<>>
    /\ UNCHANGED <<sched, fields, lists, classes, regS, regG>>

MReset ==
    /\ store' = [store EXCEPT ![1] = reset("T", @), ![2] = NoDict]
    /\ last' = Did("reset", 0, None, FALSE)
    /\ ret' = None /\ calls' = <<>>
    /\ UNCHANGED <<sched, fields, lists, classes, regS, regG>>

MLoads ==
    \E data \in LoadData :
        LET r == loads_from_dict("T", Start(1), data)
        IN /\ store' = [store EXCEPT ![1] = r.slots, ![2] = NoDict]
           /\ last' = Did("loads", 0, data, FALSE)
           /\ ret' = None
           /\ calls' = r.calls
           /\ UNCHANGED <<sched, fields, lists, classes, regS, regG>>

MDumps ==
    \E raw \in BOOLEAN :
        LET r == dumps("T", Start(1), raw)
        IN /\ store' = [store EXCEPT ![1] = r.slots, ![2] = NoDict]
           /\ last' = Did("dumps", 0, None, raw)
           /\ ret' = r.out
           /\ calls' = r.calls
           /\ UNCHANGED <<sched, fields, lists, classes, regS, regG>>

MHide ==
    \E fid \in {1, 2} :
        /\ fields' = [fields EXCEPT ![fid] = hide(@)]
        /\ store' = [store EXCEPT ![2] = NoDict]
        /\ last' = Did("hide", fid, None, FALSE)
        /\ ret' = None /\ calls' = <<>>
        /\ UNCHANGED <<sched, lists, classes, regS, regG>>

MUnhide ==
    \E fid \in {1, 2} :
        /\ fields' = [fields EXCEPT ![fid] = unhide(@)]
        /\ store' = [store EXCEPT ![2] = NoDict]
        /\ last' = Did("unhide", fid, None, FALSE)
        /\ ret' = None /\ calls' = <<>>
        /\ UNCHANGED <<sched, lists, classes, regS, regG>>

MGetField ==
    \E name \in LoadKeys \cup {""} :
        /\ store' = [store EXCEPT ![2] = NoDict]
        /\ last' = Did("get_field", 0, Name(name), FALSE)
        /\ ret' = PyInt(get_field("T", name))
        /\ calls' = <<>>
        /\ UNCHANGED <<sched, fields, lists, classes, regS, regG>>

\* T(m): Typing2.__init__ with another model as data, which is loads_from_typing
MCopy ==
    LET d == dumps("T", Start(1), TRUE)
        r == loads_from_dict("T", Acc(NoDict, d.calls, None), d.out)
    IN /\ store' = [store EXCEPT ![1] = d.slots, ![2] = r.slots]
       /\ last' = Did("copy", 0, None, FALSE)
       /\ ret' = None
       /\ calls' = r.calls
       /\ UNCHANGED <<sched, fields, lists, classes, regS, regG>>

MEncode ==
    LET e == encode("T", Start(1))
    IN /\ store' = [store EXCEPT ![1] = e.slots, ![2] = NoDict]
       /\ last' = Did("encode", 0, None, FALSE)
       /\ ret' = e.out
       /\ calls' = e.calls
       /\ UNCHANGED <<sched, fields, lists, classes, regS, regG>>

\* T(m.encode()): Typing2.__init__ with bytes as data, which is loads_from_bytes
MDecode ==
    LET e == encode("T", Start(1))
        r == loads_from_bytes("T", Acc(NoDict, e.calls, None), e.out)
    IN /\ store' = [store EXCEPT ![1] = e.slots, ![2] = r.slots]
       /\ last' = Did("decode", 0, None, FALSE)
       /\ ret' = e.out
       /\ calls' = r.calls
       /\ UNCHANGED <<sched, fields, lists, classes, regS, regG>>

----------------------------------------------------------------------------
(* SpecModel: names and visibility.  The class body gave a and b mapping   *)
(* names (any of MappingNames, clashes included) and a maybe the int / str *)
(* converters; fields are hidden and shown while m is loaded and dumped.   *)

MappingNames == {NoName, "a", "b", "A", ""}

MInit ==
    \E cv \in {<<NoFunc, NoFunc>>, <<"ToInt", "ToStr">>},
       ma \in MappingNames \ {"a", ""}, mb \in MappingNames \ {"b"} :
        ModelInit(mapping(converter(NewField("Field", "a", NoFunc, None, 1, 2), cv[1], cv[2]), ma),
                  <<>>, <<>>,
                  mapping(NewField("Field", "b", NoFunc, None, 3, 4), mb))

MNext ==
    \/ MWrite \/ MReset \/ MLoads \/ MDumps \/ MHide \/ MUnhide \/ MGetField

SpecModel == MInit /\ [][MNext]_vars

----------------------------------------------------------------------------
(* SpecTrip: copies and encodings.  The class body declared a as a Field   *)
(* or a vField with any of the chains, converters and defaults below, and  *)
(* maybe hid it or gave it the mapping name "A" or "b" (the name of the    *)
(* other field); m is written and deleted, then copied, encoded and        *)
(* decoded.                                                                *)

ChainPairs == {<<<<>>, <<>>>>, <<<<"Inc">>, <<>>>>, <<<<>>, <<"Dbl">>>>, <<<<"Dbl">>, <<"Inc">>>>}

ConverterPairs == {<<NoFunc, NoFunc>>, <<"ToInt", "ToStr">>, <<"Inc", NoFunc>>}

TInit ==
    \E kind \in {"Field", "vField"}, ch \in ChainPairs, cv \in ConverterPairs,
       d \in Defaults, hidden \in BOOLEAN, ma \in {NoName, "b", "A"} :
        ModelInit([mapping(converter(NewField(kind, "a", NoFunc, d, 1, 2), cv[1], cv[2]), ma)
                      EXCEPT !.hidden = hidden],
                  ch[1], ch[2],
                  NewField("Field", "b", NoFunc, None, 3, 4))

TNext ==
    \/ MWrite \/ MRead \/ MDelete \/ MDirectSet \/ MDirectGet \/ MReset \/ MLoads
    \/ MCopy \/ MEncode \/ MDecode

SpecTrip == TInit /\ [][TNext]_vars

----------------------------------------------------------------------------
(* SpecInit: the classes A, B(A) and C(B), none resolved.  A               *)
(* declares the Field X; the Field Y is declared by A (before X) or by B,  *)
(* with or without the mapping name "X".  Threads construct instances; the *)
(* steps of __one_time_init interleave.  Between constructions the model   *)
(* author registers setters and getters on class attributes and hides      *)
(* them.                                                                   *)

\* number of threads
NThreads == 2
\* how many chains and hidden flags the model author sets
MaxEdits == 1

Threads == 1 .. NThreads

InitClasses == {"A", "B", "C"}

\* the attribute the model author configures
EditedNames == {"X"}

Unresolved(declared) ==
    [dict |-> [n \in declared |-> IF n = "X" THEN 1 ELSE 2],
     order |-> IF declared = {"X", "Y"} THEN <<"Y", "X">>
               ELSE IF declared = {"X"} THEN <<"X">>
               ELSE IF declared = {"Y"} THEN <<"Y">> ELSE <<>>,
     fields |-> <<>>, has_fields |-> FALSE, init_done |-> FALSE]

IInit ==
    /\ \E ycls \in {"A", "B"}, my \in {NoName, "X"} :
          /\ fields = <<NewField("Field", NoName, NoFunc, None, 1, 2),
                        mapping(NewField("Field", NoName, NoFunc, None, 3, 4), my)>>
          /\ classes = [c \in InitClasses |->
                           Unresolved((IF c = "A" THEN {"X"} ELSE {})
                                      \cup (IF c = ycls THEN {"Y"} ELSE {}))]
    /\ \E chained \in BOOLEAN :
          \* X = Field().setters(Inc).setters(Dbl).getters(Inc).getters(Dbl)
          lists = IF chained
                  THEN <<setters_list(setters_list(<<>>, "Inc", FALSE), "Dbl", FALSE),
                         getters_list(getters_list(<<>>, "Inc", FALSE), "Dbl", FALSE),
                         <<>>, <<>>>>
                  ELSE <<<<>>, <<>>, <<>>, <<>>>>
    /\ store = <<>>
    /\ last = NoOp /\ ret = None /\ calls = <<>>
    /\ regS = <<>> /\ regG = <<>>
    /\ pc = [t \in Threads |-> "idle"]
    /\ tcls = [t \in Threads |-> "A"]
    /\ pos = [t \in Threads |-> <<1, 1>>]
    /\ lock = 0
    /\ runs = [c \in InitClasses |-> 0]
    /\ hooks = [c \in InitClasses |-> NoName]

Quiet == UNCHANGED <<store, last, ret, calls, regS, regG, hooks>>

\* Typing2.__init__ is called, cls(...), and __one_time_init makes its first
\* attempt, without the lock
IStart(t) ==
    \E cls \in InitClasses :
        /\ pc[t] = "idle"
        /\ pc' = [pc EXCEPT ![t] = IF classes[cls].init_done THEN "post" ELSE "acquire"]
        /\ tcls' = [tcls EXCEPT ![t] = cls]
        /\ Quiet /\ UNCHANGED <<fields, lists, classes, pos, lock, runs>>

\* with self.__init_lock
IAcquire(t) ==
    /\ pc[t] = "acquire"
    /\ lock = 0
    /\ lock' = t
    /\ pc' = [pc EXCEPT ![t] = "check2"]
    /\ Quiet /\ UNCHANGED <<fields, lists, classes, tcls, pos, runs>>

\* the second attempt: return (and release the lock) when the class is initialized
ICheck2(t) ==
    /\ pc[t] = "check2"
    /\ IF init_done_retested(tcls[t])
       THEN lock' = 0 /\ pc' = [pc EXCEPT ![t] = "post"]
       ELSE lock' = lock /\ pc' = [pc EXCEPT ![t] = "reset"]
    /\ Quiet /\ UNCHANGED <<fields, lists, classes, tcls, pos, runs>>

\* top_cls.__fields = []
IReset(t) ==
    /\ pc[t] = "reset"
    /\ classes' = [classes EXCEPT ![tcls[t]].fields = <<>>, ![tcls[t]].has_fields = TRUE]
    /\ runs' = [runs EXCEPT ![tcls[t]] = @ + 1]
    /\ pos' = [pos EXCEPT ![t] = <<1, 1>>]
    /\ pc' = [pc EXCEPT ![t] = "scan"]
    /\ Quiet /\ UNCHANGED <<fields, lists, tcls, lock>>

\* one step of the two loops: the next item of the __dict__ of the next class of the MRO
IScan(t) ==
    /\ pc[t] = "scan"
    /\ LET top == tcls[t]
           mro == Mro(top)
           ci == pos[t][1]
           ki == pos[t][2]
           cls == mro[ci]
           name == classes[cls].order[ki]
           fid == classes[cls].dict[name]
           nid == Len(fields) + 1
       IN IF ci > Len(mro)
          THEN /\ pc' = [pc EXCEPT ![t] = "flag"]
               /\ UNCHANGED <<fields, lists, classes, pos>>
          ELSE IF ki > Len(classes[cls].order)
          THEN /\ pos' = [pos EXCEPT ![t] = <<ci + 1, 1>>]
               /\ UNCHANGED <<fields, lists, classes, pc>>
          ELSE /\ pos' = [pos EXCEPT ![t] = <<ci, ki + 1>>]
               /\ pc' = pc
               /\ IF cls = top
                  THEN /\ fields' = [fields EXCEPT ![fid] = set_name(@, name)]
                       /\ classes' = [classes EXCEPT ![top].fields = Append(@, fid)]
                       /\ lists' = lists
                  ELSE IF get_field(top, name) = 0
                  THEN /\ fields' = Append(fields,
                                           set_name(copy(fields[fid], 2 * nid - 1, 2 * nid), name))
                       /\ lists' = lists \o <<copy_setters(lists[fields[fid].setters_funcs], <<>>),
                                              copy_getters(lists[fields[fid].getters_funcs], <<>>)>>
                       /\ classes' = [classes EXCEPT
                                         ![top].fields = Append(@, nid),
                                         ![top].dict = [n \in DOMAIN @ \cup {name} |->
                                                           IF n = name THEN nid ELSE @[n]],
                                         ![top].order = Append(@, name)]
                  ELSE UNCHANGED <<fields, lists, classes>>
    /\ Quiet /\ UNCHANGED <<tcls, lock, runs>>

\* self.transform_fields(), the hook of Typing2 which does nothing, then
\* top_cls.__init_done = True
IFlag(t) ==
    /\ pc[t] = "flag"
    /\ classes' = [classes EXCEPT ![tcls[t]].init_done = TRUE]
    /\ pc' = [pc EXCEPT ![t] = "release"]
    /\ Quiet /\ UNCHANGED <<fields, lists, tcls, pos, lock, runs>>

\* the end of the with block
IRelease(t) ==
    /\ pc[t] = "release"
    /\ lock' = 0
    /\ pc' = [pc EXCEPT ![t] = "post"]
    /\ Quiet /\ UNCHANGED <<fields, lists, classes, tcls, pos, runs>>

\* __one_time_init has returned: post_init(), no data, __init__ returns
IPost(t) ==
    /\ pc[t] = "post"
    /\ pc' = [pc EXCEPT ![t] = "idle"]
    /\ tcls' = [tcls EXCEPT ![t] = "A"]
    /\ pos' = [pos EXCEPT ![t] = <<1, 1>>]
    /\ Quiet /\ UNCHANGED <<fields, lists, classes, lock, runs>>

Edits ==
    Cardinality(UNION {{<<r, i>> : i \in DOMAIN lists[r]} : r \in DOMAIN lists})
    + Cardinality({fid \in DOMAIN fields : fields[fid].hidden})

\* cls.name.setters(function) or cls.name.getters(function)
IRegister ==
    \E cls \in InitClasses, name \in EditedNames, setter \in BOOLEAN :
        LET fid == LookupAttr(cls, name)
        IN /\ fid # 0
           /\ Edits < MaxEdits
           /\ \A t \in Threads : pc[t] = "idle"
           /\ lists' = IF setter
                       THEN [lists EXCEPT ![fields[fid].setters_funcs] =
                                               setters(fields[fid], "Inc", FALSE)]
                       ELSE [lists EXCEPT ![fields[fid].getters_funcs] =
                                               getters(fields[fid], "Inc", FALSE)]
           /\ Quiet /\ UNCHANGED <<fields, classes, sched>>

\* cls.name.hide()
IHide ==
    \E cls \in InitClasses, name \in EditedNames :
        LET fid == LookupAttr(cls, name)
        IN /\ fid # 0
           /\ Edits < MaxEdits
           /\ \A t \in Threads : pc[t] = "idle"
           /\ fields' = [fields EXCEPT ![fid] = hide(@)]
           /\ Quiet /\ UNCHANGED <<lists, classes, sched>>

INext ==
    \/ \E t \in Threads :
          \/ IStart(t) \/ IAcquire(t) \/ ICheck2(t) \/ IReset(t)
          \/ IScan(t) \/ IFlag(t) \/ IRelease(t) \/ IPost(t)
    \/ IRegister \/ IHide

SpecInit == IInit /\ [][INext]_vars

-----------------------------------------------------------------------------
(* SpecHook: a class that overrides transform_fields with a hook that        *)
(* constructs an instance of a model class, cls.transform_fields() being     *)
(* called by __one_time_init inside the with block.  The call the hook makes *)
(* is a frame of its own: frame t + NThreads is the constructor that the     *)
(* hook of thread t called, and thread t waits for it to return.  No field   *)
(* is mapped, chained or hidden here.                                        *)

Frames == 1 .. 2 * NThreads

\* self.transform_fields() on an instance of cls: the class that the hook found first
\* in the MRO constructs, NoName when it is the hook of Typing2, which does nothing
transform_fields(cls) ==
    LET mro == Mro(cls)
        hits == {i \in 1 .. Len(mro) : hooks[mro[i]] # NoName}
    IN IF hits = {} THEN NoName
       ELSE hooks[mro[CHOOSE i \in hits : \A j \in hits : i <= j]]

HInit ==
    /\ fields = <<NewField("Field", NoName, NoFunc, None, 1, 2)>>
    /\ lists = <<<<>>, <<>>>>
    /\ classes = [c \in InitClasses |-> Unresolved(IF c = "A" THEN {"X"} ELSE {})]
    /\ \E hc \in InitClasses, target \in InitClasses \cup {NoName} :
          hooks = [c \in InitClasses |-> IF c = hc THEN target ELSE NoName]
    /\ store = <<>>
    /\ last = NoOp /\ ret = None /\ calls = <<>>
    /\ regS = <<>> /\ regG = <<>>
    /\ pc = [f \in Frames |-> "idle"]
    /\ tcls = [f \in Frames |-> "A"]
    /\ pos = [f \in Frames |-> <<1, 1>>]
    /\ lock = 0
    /\ runs = [c \in InitClasses |-> 0]

\* self.transform_fields() with a hook that constructs: the hook calls target(), whose
\* __one_time_init makes its first attempt, without the lock
HCall(t) ==
    LET target == transform_fields(tcls[t])
    IN /\ pc[t] = "flag"
       /\ target # NoName
       /\ pc' = [pc EXCEPT ![t] = "hook",
                           ![t + NThreads] = IF classes[target].init_done THEN "post"
                                             ELSE "acquire"]
       /\ tcls' = [tcls EXCEPT ![t + NThreads] = target]
       /\ Quiet /\ UNCHANGED <<fields, lists, classes, pos, lock, runs>>

\* the constructor the hook called returns (post_init(), no data), the hook returns,
\* and top_cls.__init_done = True
HReturn(t) ==
    /\ pc[t] = "hook"
    /\ pc[t + NThreads] = "post"
    /\ classes' = [classes EXCEPT ![tcls[t]].init_done = TRUE]
    /\ pc' = [pc EXCEPT ![t] = "release", ![t + NThreads] = "idle"]
    /\ tcls' = [tcls EXCEPT ![t + NThreads] = "A"]
    /\ Quiet /\ UNCHANGED <<fields, lists, pos, lock, runs>>

\* the frames of the hooks run the same __one_time_init as the threads; a frame that
\* resolves a class would run that class's hook in turn, which no frame comes to do
\* because the thread that called it holds the lock
HNext ==
    \/ \E t \in Threads :
          \/ IStart(t) \/ IPost(t)
          \/ (transform_fields(tcls[t]) = NoName /\ IFlag(t))
          \/ HCall(t) \/ HReturn(t)
    \/ \E f \in Frames :
          \/ IAcquire(f) \/ ICheck2(f) \/ IReset(f) \/ IScan(f) \/ IRelease(f)

SpecHook == HInit /\ [][HNext]_vars

----------------------------------------------------------------------------
(* Claims on a model (SpecModel, SpecTrip) *)

FieldIds == {1, 2}

\* what a read of the field returns on instance i, when its slot is filled
ReadOf(i, fid) ==
    Composed(lists[fields[fid].getters_funcs],
             IF fields[fid].kind = "vField" THEN fields[fid].default_value
             ELSE store[i][fields[fid].instance_name])

\* what the display dump shows for the field
ShownOf(i, fid) ==
    IF fields[fid].dumps_converter = NoFunc \/ ReadOf(i, fid) = None THEN ReadOf(i, fid)
    ELSE Call(fields[fid].dumps_converter, ReadOf(i, fid))

RawOf(i) == dumps("T", Start(i), TRUE).out

DisplayOf(i) == dumps("T", Start(i), FALSE).out

SameDumps == DictEq(RawOf(1), RawOf(2)) /\ DictEq(DisplayOf(1), DisplayOf(2))

\* writing back what the field reads leaves the stored value as it is
Stable(fid) ==
    fields[fid].kind = "Field" =>
        /\ fields[fid].instance_name \in DOMAIN store[1]
        /\ Composed(lists[fields[fid].setters_funcs],
                    Converted(fields[fid], ReadOf(1, fid)))
              = store[1][fields[fid].instance_name]

\* no field has the name of another field as its mapping name
NoNameClash ==
    \A f \in FieldIds : \A g \in FieldIds \ {f} : fields[f].mapping_name # fields[g].name

\* C1: the instance built from m.dumps(raw=True) dumps as m does, raw and not raw,
\* whatever the converters, setters, getters, hidden flags and mapping names.
C1_RawRoundTrip == last.op = "copy" => SameDumps

\* How far the round trip does hold: loading m.dumps(raw=True) writes each field's
\* raw value (what the getters return) through the write path (loads converter, then
\* setters), so the fresh instance stores and dumps what m does whenever that write
\* leaves every stored value of m as it is and no field's mapping name is the name of
\* another field; hidden flags and dumps converters do not matter.
RoundTripOfStableFields ==
    (last.op = "copy" /\ NoNameClash /\ \A fid \in FieldIds : Stable(fid)) =>
        SameDumps /\ store[2] = store[1]

RoundTripOfStableFields_Reached ==
    /\ last.op = "copy" /\ NoNameClash /\ \A fid \in FieldIds : Stable(fid)
    /\ fields[1].kind = "Field" /\ fields[1].hidden
    /\ fields[1].loads_converter = "ToInt" /\ fields[1].dumps_converter = "ToStr"
    /\ fields[1].mapping_name = "A"
    /\ store[1]["_a"] = PyInt(1) /\ store[2]["_a"] = PyInt(1)
    /\ DictGet(RawOf(2), "a") = PyInt(1)
    /\ SameDumps

\* C7: a raw dump has an entry for every resolved field; a dump that is not raw has
\* the entries of exactly the fields that are not hidden; hide() and unhide() set the
\* flag the next dump reads and change no stored value.
C7_Step ==
    /\ (last'.op = "dumps" /\ last'.flag) =>
          /\ Keys(ret') = {fields'[fid].name : fid \in FieldIds}
          /\ Len(ret'.items) = Len(classes'["T"].fields)
    /\ (last'.op = "dumps" /\ ~last'.flag) =>
          Keys(ret') = {get_name(fields'[fid], FALSE) :
                            fid \in {g \in FieldIds : ~fields'[g].hidden}}
    /\ last'.op \in {"hide", "unhide"} =>
          /\ store' = store
          /\ fields'[last'.fid].hidden = (last'.op = "hide")

C7_HiddenFields == [][C7_Step]_vars

C7_Witness ==
    /\ last.op = "dumps" /\ ~last.flag
    /\ fields[1].hidden /\ ~fields[2].hidden
    /\ fields[1].mapping_name = NoName /\ fields[2].mapping_name = NoName
    /\ "_a" \in DOMAIN store[1] /\ store[1]["_a"] = PyInt(1)
    /\ Keys(ret) = {"b"}

\* the mapping name or the own name of fid is also a name of another field, or the
\* mapping name is the empty string
Clash(fid) ==
    \/ fields[fid].mapping_name = ""
    \/ \E g \in FieldIds \ {fid} :
          {fields[g].name, fields[g].mapping_name}
              \cap {fields[fid].name, fields[fid].mapping_name} # {}

OneEntry(data) == data.t = "dict" /\ Len(data.items) = 1

\* C8 for the field fid with a mapping name, on the condition ok
MappingHolds(fid, shown, ok) ==
    LET M == fields[fid].mapping_name
        F == fields[fid].name
    IN /\ (last.op = "dumps" /\ ~last.flag /\ shown /\ ok) =>
             /\ M \in Keys(ret) /\ DictGet(ret, M) = ShownOf(1, fid)
             /\ F \notin Keys(ret)
       /\ (last.op = "dumps" /\ last.flag) =>
             F \in Keys(ret) /\ DictGet(ret, F) = ReadOf(1, fid)
       /\ (last.op = "get_field" /\ last.value.k \in {M, F} /\ ok) => ret = PyInt(fid)
       /\ (last.op = "loads" /\ OneEntry(last.value) /\ last.value.items[1].k \in {M, F} /\ ok) =>
             /\ fields[fid].instance_name \in DOMAIN store[1]
             /\ store[1][fields[fid].instance_name]
                   = Composed(lists[fields[fid].setters_funcs],
                              Converted(fields[fid], ValueOf(last.value.items[1])))

\* C8 as stated: for every field with a mapping name.
C8_MappingNames ==
    \A fid \in FieldIds : fields[fid].mapping_name # NoName => MappingHolds(fid, TRUE, TRUE)

\* C8 amended: if F has the mapping name M, M is not empty and neither M nor F's own
\* name is the name or mapping name of another resolved field, then get_field(M) and
\* get_field(F's name) return F, loading a map keyed by M or by F's name writes to F,
\* and dumps(raw=False) emits F's value under M and not under F's name unless F is
\* hidden; dumps(raw=True) emits it under F's own name in every case.
C8_MappingOfDistinctNames ==
    \A fid \in FieldIds :
        fields[fid].mapping_name # NoName =>
            MappingHolds(fid, ~fields[fid].hidden, ~Clash(fid))

C8_Witness ==
    /\ last.op = "dumps" /\ ~last.flag
    /\ fields[1].mapping_name = "A" /\ ~Clash(1) /\ ~fields[1].hidden
    /\ fields[1].dumps_converter = "ToStr"
    /\ store[1]["_a"] = PyInt(1)
    /\ DictGet(ret, "A") = PyStr(1)
    /\ "a" \notin Keys(ret)

\* no tuple: the values JSON gives back as they were
JsonClean(i) == \A fid \in FieldIds : ReadOf(i, fid).t # "tuple"

EncodesRawDump == DictEq(json_loads(ret), RawOf(1)) /\ Keys(json_loads(ret)) = {"a", "b"}

\* C9: for JSON-clean values encode() is the JSON text of the raw dump and the
\* instance decoded from it dumps as m does, raw and not raw.
C9_EncodeDecode ==
    (last.op = "decode" /\ JsonClean(1)) => EncodesRawDump /\ SameDumps

\* How far decoding does invert encoding: encode() is the JSON text of the raw dump
\* (own names, no dumps converter); for JSON-clean values the instance decoded from it
\* stores and dumps (raw and not raw, the latter under the mapping names) what m does
\* whenever writing back what each field reads leaves its stored value as it is and
\* no field's mapping name is the name of another field.
EncodeDecodeOfStableFields ==
    (last.op = "decode" /\ JsonClean(1)) =>
        /\ EncodesRawDump
        /\ (NoNameClash /\ \A fid \in FieldIds : Stable(fid)) =>
              /\ SameDumps /\ store[2] = store[1]
              /\ Keys(DisplayOf(2)) = {get_name(fields[fid], FALSE) :
                                          fid \in {g \in FieldIds : ~fields[g].hidden}}

EncodeDecodeOfStableFields_Reached ==
    /\ last.op = "decode" /\ JsonClean(1) /\ NoNameClash /\ \A fid \in FieldIds : Stable(fid)
    /\ fields[1].kind = "Field" /\ fields[1].mapping_name = "A" /\ ~fields[1].hidden
    /\ store[1]["_a"] = PyInt(1)
    /\ ret = json_dumps(PyDict(<<Entry("a", PyInt(1)), Entry("b", None)>>))
    /\ DisplayOf(2) = PyDict(<<Entry("A", PyInt(1)), Entry("b", None)>>)

\* the calls of log pass the value along: the first gets `first`, each next one what
\* the one before returned
Threaded(log, first) ==
    \A i \in 1 .. Len(log) :
        log[i][2] = IF i = 1 THEN first ELSE Call(log[i - 1][1], log[i - 1][2])

ConverterCall(f, value) ==
    IF f.loads_converter = NoFunc \/ value = None THEN <<>> ELSE <<f.loads_converter>>

\* C10: a vField never has a storage slot, whatever is written, loaded, deleted or
\* reset; an operation on it changes no slot of the instance; a read returns the
\* getter chain applied to the static default; a write calls the loads converter and
\* then the setters; direct_get and direct_set raise UnsupportedOperation.
C10_Step ==
    fields[1].kind = "vField" =>
        /\ \A i \in {1, 2} : "_a" \notin DOMAIN store'[i]
        /\ (last'.fid = 1 /\ last'.op \in {"set", "get", "delete", "direct_set", "direct_get"})
              => store'[1] = store[1]
        /\ (last'.fid = 1 /\ last'.op = "get") =>
              ret' = Composed(lists[fields[1].getters_funcs], fields[1].default_value)
        /\ (last'.fid = 1 /\ last'.op = "set") =>
              /\ FuncsOf(calls') = ConverterCall(fields[1], last'.value)
                                       \o lists[fields[1].setters_funcs]
              /\ Threaded(calls', last'.value)
        /\ (last'.op = "loads" /\ OneEntry(last'.value) /\ last'.value.items[1].k = "a") =>
              FuncsOf(calls') = lists[fields[1].getters_funcs]
                                   \o ConverterCall(fields[1], ValueOf(last'.value.items[1]))
                                   \o lists[fields[1].setters_funcs]
        /\ (last'.fid = 1 /\ last'.op \in {"direct_set", "direct_get"}) =>
              ret' = Raised("UnsupportedOperation")

C10_VirtualFields == [][C10_Step]_vars

C10_Witness ==
    /\ fields[1].kind = "vField"
    /\ last.op = "set" /\ last.fid = 1 /\ last.value = PyStr(1)
    /\ fields[1].loads_converter = "ToInt"
    /\ calls = <<<<"ToInt", PyStr(1)>>, <<"Dbl", PyInt(1)>>>>
    /\ "_b" \in DOMAIN store[1]
    /\ "_a" \notin DOMAIN store[1]

----------------------------------------------------------------------------
(* Claims on class resolution (SpecInit) *)

Resolved(cls) == classes[cls].init_done

\* C2: once two classes are resolved, the Field reachable as X on one is not the
\* Field reachable as X on the other, and the two share neither the setter list
\* nor the getter list.
C2_InheritanceIsolation ==
    \A c1 \in InitClasses : \A c2 \in InitClasses \ {c1} :
        (Resolved(c1) /\ Resolved(c2)) =>
            LET f1 == LookupAttr(c1, "X")
                f2 == LookupAttr(c2, "X")
            IN /\ f1 # f2
               /\ fields[f1].setters_funcs # fields[f2].setters_funcs
               /\ fields[f1].getters_funcs # fields[f2].getters_funcs

\* the ids of a resolved list are distinct, and so are the names of its fields
NoDuplicate(fs) ==
    \A i \in 1 .. Len(fs) : \A j \in 1 .. Len(fs) :
        i # j => (fs[i] # fs[j] /\ fields[fs[i]].name # fields[fs[j]].name)

\* every Field of the MRO is in the resolved list, or the list has a Field that
\* answers to its attribute name
Complete(cls) ==
    \A i \in 1 .. Len(Mro(cls)) : \A n \in DOMAIN classes[Mro(cls)[i]].dict :
        get_field(cls, n) # 0

\* C3: whatever the interleaving of the constructors, the resolution body of a class
\* runs at most once, and exactly once when the class is flagged initialized; the
\* resolved list never holds a Field twice; a constructor that has returned from
\* __one_time_init finds the flag set and the list complete.
C3_OneTimeInit ==
    /\ \A c \in InitClasses :
          /\ runs[c] <= 1
          /\ Resolved(c) => (runs[c] = 1 /\ Complete(c))
          /\ NoDuplicate(classes[c].fields)
    /\ \A t \in Threads :
          pc[t] = "post" => (Resolved(tcls[t]) /\ Complete(tcls[t]))

\* two threads made the first attempt on B before it was resolved: one has resolved
\* it and returned, the other holds the lock and is about to test the flag again
C3_Witness ==
    /\ pc[1] = "post" /\ tcls[1] = "B"
    /\ pc[2] = "check2" /\ tcls[2] = "B"
    /\ Resolved("B")
    /\ Len(classes["B"].fields) = 2

\* C15: the copy that resolution makes of an ancestor's field has chain lists of its
\* own, which hold the functions of the copied field in the same order, so that a
\* write and a read through the copy run the chains as the copied field runs them.
C15_Step ==
    \A t \in Threads :
        (pc[t] = "scan" /\ Len(fields') = Len(fields) + 1) =>
            LET cls == Mro(tcls[t])[pos[t][1]]
                name == classes[cls].order[pos[t][2]]
                old == fields[classes[cls].dict[name]]
                new == fields'[Len(fields')]
            IN /\ new.setters_funcs # old.setters_funcs
               /\ new.getters_funcs # old.getters_funcs
               /\ lists'[new.setters_funcs] = lists[old.setters_funcs]
               /\ lists'[new.getters_funcs] = lists[old.getters_funcs]
               /\ \A n \in 0 .. Modulus - 1 :
                     /\ Composed(lists'[new.setters_funcs], PyInt(n))
                           = Composed(lists[old.setters_funcs], PyInt(n))
                     /\ Composed(lists'[new.getters_funcs], PyInt(n))
                           = Composed(lists[old.getters_funcs], PyInt(n))

C15_CopyKeepsChainOrder == [][C15_Step]_vars

\* the attribute names a class declares itself: those bound to a Field of a class body
OwnNames(cls) == {n \in DOMAIN classes[cls].dict : classes[cls].dict[n] <= 2}

\* the attribute names of the Fields visible on a class
VisibleNames(cls) ==
    UNION {DOMAIN classes[Mro(cls)[i]].dict : i \in 1 .. Len(Mro(cls))}

\* C17: the resolved list of a class holds the fields the class declares, first and in
\* declaration order, then one copy of its own for every other attribute name visible
\* on the class: no name is left out and none is twice in the list; a copy is bound to
\* its attribute name, stores under "_" + name, and is the class's attribute of that
\* name.
C17_ResolvedList ==
    \A c \in InitClasses :
        Resolved(c) =>
            LET fs == classes[c].fields
                IsOwn(n) == n \in OwnNames(c)
                own == SelectSeq(classes[c].order, IsOwn)
            IN /\ {fields[fs[i]].name : i \in 1 .. Len(fs)} = VisibleNames(c)
               /\ Len(fs) = Cardinality(VisibleNames(c))
               /\ Len(own) <= Len(fs)
               /\ \A i \in 1 .. Len(own) :
                     fs[i] = classes[c].dict[own[i]] /\ fields[fs[i]].name = own[i]
               /\ \A i \in Len(own) + 1 .. Len(fs) :
                     LET f == fields[fs[i]]
                     IN /\ fs[i] > 2
                        /\ \A j \in 2 .. Len(Mro(c)) :
                              \A n \in DOMAIN classes[Mro(c)[j]].dict :
                                  classes[Mro(c)[j]].dict[n] # fs[i]
                        /\ f.instance_name = "_" \o f.name
                        /\ f.name \in DOMAIN classes[c].dict
                        /\ classes[c].dict[f.name] = fs[i]

\* C18: a construction never blocks forever on the init lock, also when it is made
\* by the transform_fields hook of a class under resolution: no constructor waits for
\* the lock while the thread it runs on is the holder, which would be a wait without
\* end because the holder releases only after the hook has returned.
C18_ConstructionCompletes ==
    \A t \in Threads : ~(pc[t] = "hook" /\ pc[t + NThreads] = "acquire" /\ lock = t)

----------------------------------------------------------------------------
(* Typing2 on a heap of instances.  A model that holds models (a field     *)
(* with a model instanciator, a list field with a model inside             *)
(* instanciator) is a graph of objects: store is then the heap, store[n]   *)
(* the __dict__ of the instance n (its fields' slots and `parent`), and a  *)
(* value of type P or E is the reference to an instance.  An operation     *)
(* takes and returns a record [heap, calls, out]; calls also logs the      *)
(* hooks pre_loads and post_loads.  A list lives in the slot that holds    *)
(* it: no operation below makes a second reference to a list.              *)

\* how many instances the heap holds at most
MaxObjs == 3

ModelClasses == {"P", "E"}

\* isinstance(value, Typing2)
IsModel(value) == value.t \in ModelClasses

Ref(cls, n) == V(cls, n, <<>>)

HAcc(heap, log, out) == [heap |-> heap, calls |-> log, out |-> out]

SetSlot(heap, n, key, value) == [heap EXCEPT ![n] = SetAttr(@, key, value)]

\* Typing2.__init__ with no data, of a class that is resolved: self.parent = parent
new_instance(h, cls, parent) ==
    HAcc(Append(h.heap, [k \in {"parent"} |-> parent]), h.calls, Ref(cls, Len(h.heap) + 1))

\* Field.__set__ on the instance ref
obj_set(h, ref, f, value) ==
    HAcc(SetSlot(h.heap, ref.n, f.instance_name,
                 RunFuncs(lists[f.setters_funcs], loads_convert(f, value))),
         h.calls \o SetCalls(f, value), None)

\* a get_instance that calls every instanciator with no arguments: self.instanciator()
obj_get_instance_orphan(h, ref, f) ==
    IF f.instanciator = NoFunc THEN HAcc(h.heap, h.calls, f.default_value)
    ELSE IF f.instanciator \in ModelClasses THEN new_instance(h, f.instanciator, None)
    ELSE HAcc(h.heap, h.calls, PyList(<<>>))

\* Field.get_instance: the static default, a new model with typing_instance as its
\* parent, or a new list
obj_get_instance(h, ref, f) ==
    IF f.instanciator = NoFunc THEN HAcc(h.heap, h.calls, f.default_value)
    ELSE IF f.instanciator \in ModelClasses THEN new_instance(h, f.instanciator, ref)
    ELSE HAcc(h.heap, h.calls, PyList(<<>>))

\* Field.__get__ on the instance ref
obj_get(h, ref, f) ==
    LET made == obj_get_instance(HAcc(SetSlot(h.heap, ref.n, f.instance_name, None),
                                      h.calls, None), ref, f)
        filled == IF f.instance_name \in DOMAIN h.heap[ref.n] THEN h
                  ELSE obj_set(made, ref, f, made.out)
        value == filled.heap[ref.n][f.instance_name]
    IN HAcc(filled.heap, filled.calls \o LogFuncs(lists[f.getters_funcs], value),
            RunFuncs(lists[f.getters_funcs], value))

RECURSIVE obj_loads_from_dict(_, _, _)
RECURSIVE obj_loads_from(_, _, _, _)
RECURSIVE obj_append_from(_, _, _, _, _)
RECURSIVE obj_append_replacing(_, _, _, _, _)

\* Typing2.__init__ with data: a dict is loaded, None and any other value is not
obj_construct(h, cls, data, parent) ==
    LET new == new_instance(h, cls, parent)
        loaded == obj_loads_from_dict(new, new.out, data)
    IN IF data.t = "dict" THEN HAcc(loaded.heap, loaded.calls, new.out) ELSE new

\* Field.get_inside_instance
obj_get_inside_instance(h, ref, f, data) ==
    IF f.inside_instanciator = NoFunc THEN HAcc(h.heap, h.calls, data)
    ELSE obj_construct(h, f.inside_instanciator, data, ref)

\* a load that starts the list anew
obj_append_replacing(h, ref, f, value, i) ==
    IF i > Len(value.items) THEN h
    ELSE LET made == obj_get_inside_instance(h, ref, f, ValueOf(value.items[i]))
             list == IF i = 1 THEN PyList(<<>>) ELSE made.heap[ref.n][f.instance_name]
         IN obj_append_replacing(HAcc(SetSlot(made.heap, ref.n, f.instance_name,
                                              PyList(Append(list.items, made.out))),
                                      made.calls, None),
                                 ref, f, value, i + 1)

\* for subset_data in value: variable.append(field.get_inside_instance(subset_data, self)),
\* from the i-th element on; variable is the list in the slot of f
obj_append_from(h, ref, f, value, i) ==
    IF i > Len(value.items) THEN h
    ELSE LET made == obj_get_inside_instance(h, ref, f, ValueOf(value.items[i]))
             list == made.heap[ref.n][f.instance_name]
         IN obj_append_from(HAcc(SetSlot(made.heap, ref.n, f.instance_name,
                                         PyList(Append(list.items, made.out))),
                                 made.calls, None),
                            ref, f, value, i + 1)

\* the loop of Typing2.loads_from_dict from the i-th entry on
obj_loads_from(h, ref, data, i) ==
    IF i > Len(data.items) THEN h
    ELSE LET fid == get_field(ref.t, data.items[i].k)
             f == fields[fid]
             value == ValueOf(data.items[i])
             variable == obj_get(h, ref, f)
         IN IF fid = 0 THEN obj_loads_from(h, ref, data, i + 1)
            ELSE IF IsModel(variable.out)
            THEN obj_loads_from(obj_loads_from_dict(variable, variable.out, value),
                                ref, data, i + 1)
            ELSE IF f.is_list
            THEN obj_loads_from(obj_append_from(variable, ref, f, value, 1), ref, data, i + 1)
            ELSE obj_loads_from(obj_set(variable, ref, f, value), ref, data, i + 1)

\* Typing2.loads_from_dict on the instance ref
obj_loads_from_dict(h, ref, data) ==
    IF Falsy(data) THEN h
    ELSE LET pre == HAcc(h.heap, Append(h.calls, <<"pre_loads", data>>), None)
             done == obj_loads_from(pre, ref, data, 1)
         IN HAcc(done.heap, Append(done.calls, <<"post_loads", None>>), None)

RECURSIVE obj_dumps_from(_, _, _, _)
RECURSIVE obj_dump_list(_, _, _, _, _)

\* Typing2.__dump of a value that is not a list
obj_dump(h, value, raw) ==
    IF IsModel(value) THEN obj_dumps_from(HAcc(h.heap, h.calls, PyDict(<<>>)), value, raw, 1)
    ELSE HAcc(h.heap, h.calls, value)

\* Typing2.__dump of a list, from the i-th element on; out holds the dumps so far
obj_dump_list(h, value, raw, i, out) ==
    IF i > Len(value.items) THEN HAcc(h.heap, h.calls, PyList(out))
    ELSE LET d == obj_dump(h, value.items[i], raw)
         IN obj_dump_list(d, value, raw, i + 1, Append(out, d.out))

\* Typing2.dumps from the i-th field on; h.out is the dict built so far
obj_dumps_from(h, ref, raw, i) ==
    IF i > Len(get_fields(ref.t)) THEN h
    ELSE LET f == fields[get_fields(ref.t)[i]]
             got == obj_get(h, ref, f)
             value == IF raw THEN got.out ELSE dumps_convert(f, got.out)
             d == IF f.is_list THEN obj_dump_list(got, value, raw, 1, <<>>)
                  ELSE obj_dump(got, value, raw)
         IN IF ~raw /\ f.hidden THEN obj_dumps_from(h, ref, raw, i + 1)
            ELSE obj_dumps_from(HAcc(d.heap, d.calls, DictSet(h.out, get_name(f, raw), d.out)),
                                ref, raw, i + 1)

\* Typing2.dumps on the instance ref
obj_dumps(h, ref, raw) == obj_dumps_from(HAcc(h.heap, h.calls, PyDict(<<>>)), ref, raw, 1)

\* Typing2.reset from the i-th field on
RECURSIVE obj_reset_from(_, _, _)
obj_reset_from(heap, ref, i) ==
    IF i > Len(get_fields(ref.t)) THEN heap
    ELSE obj_reset_from([heap EXCEPT ![ref.n] = Field_delete(fields[get_fields(ref.t)[i]], @)],
                        ref, i + 1)

\* Typing2.reset on the instance ref
obj_reset(h, ref) ==
    HAcc(obj_reset_from(h.heap, ref, 1), Append(h.calls, <<"post_loads", None>>), None)

----------------------------------------------------------------------------
(* SpecNest: a model m of class P that holds models.  P declares name1, a  *)
(* plain Field, items, a list field whose elements are built by the class  *)
(* E or kept as they come, and child, a Field with the instanciator E; E   *)
(* declares name1 (maybe with a setter, maybe with the mapping name "N")   *)
(* and x.  m is instance 1 of the heap; it is loaded, read, written,       *)
(* dumped and reset.                                                       *)

M == Ref("P", 1)

Heap == HAcc(store, <<>>, None)

ElementMaps ==
    {None,
     PyDict(<<Entry("name1", PyInt(1))>>),
     PyDict(<<Entry("x", PyInt(2 % Modulus)), Entry("zz", PyInt(1))>>)}

NestData ==
    {None, PyDict(<<>>),
     PyDict(<<Entry("zz", PyInt(1))>>),
     PyDict(<<Entry("zz", PyInt(1)), Entry("name1", PyInt(1))>>),
     PyDict(<<Entry("items", PyList(<<>>))>>),
     PyDict(<<Entry("items", PyList(<<PyDict(<<Entry("name1", PyInt(1))>>),
                                      PyDict(<<Entry("x", PyInt(2 % Modulus)),
                                               Entry("zz", PyInt(1))>>)>>))>>),
     PyDict(<<Entry("child", PyDict(<<>>))>>)}
    \cup {PyDict(<<Entry("items", PyList(<<e>>))>>) : e \in ElementMaps}
    \cup {PyDict(<<Entry("child", e)>>) : e \in ElementMaps}

NInit ==
    \E inside \in {"E"}, cs \in {<<>>, <<"Inc">>}, cm \in {NoName} :
        /\ fields = <<NewField("Field", "name1", NoFunc, None, 1, 2),
                      list_of(NewField("Field", "items", NoFunc, None, 3, 4), inside),
                      NewField("Field", "child", "E", None, 5, 6),
                      mapping(NewField("Field", "name1", NoFunc, None, 7, 8), cm),
                      NewField("Field", "x", NoFunc, None, 9, 10)>>
        /\ lists = [r \in 1 .. 10 |-> IF r = 7 THEN cs ELSE <<>>]
        /\ classes = [c \in ModelClasses |->
                         IF c = "P"
                         THEN [dict |-> [n \in {"name1", "items", "child"} |->
                                            IF n = "name1" THEN 1 ELSE IF n = "items" THEN 2 ELSE 3],
                               order |-> <<"name1", "items", "child">>,
                               fields |-> <<1, 2, 3>>, has_fields |-> TRUE, init_done |-> TRUE]
                         ELSE [dict |-> [n \in {"name1", "x"} |-> IF n = "name1" THEN 4 ELSE 5],
                               order |-> <<"name1", "x">>,
                               fields |-> <<4, 5>>, has_fields |-> TRUE, init_done |-> TRUE]]
    /\ store = <<[k \in {"parent"} |-> None]>>
    /\ regS = <<>> /\ regG = <<>>
    /\ last = NoOp /\ ret = None /\ calls = <<>>
    /\ NoThreads

\* the instances a value refers to
RefsOf(value) ==
    IF IsModel(value) THEN {value.n}
    ELSE IF value.t = "list"
    THEN {value.items[i].n : i \in {j \in 1 .. Len(value.items) : IsModel(value.items[j])}}
    ELSE {}

\* the heap without the instances allocated last that m no longer refers to: an
\* instance of E is referred to by a slot of m or by a list in a slot of m only
Live(heap) ==
    LET refs == {1} \cup UNION {RefsOf(heap[1][k]) : k \in DOMAIN heap[1]}
    IN SubSeq(heap, 1, CHOOSE n \in refs : \A r \in refs : r <= n)

\* the operation gave r: the heap stays within MaxObjs instances.  The history keeps
\* what m stored for the field fid before the operation.
Done(r, op, fid, value, flag) ==
    /\ Len(r.heap) <= MaxObjs
    /\ store' = Live(r.heap)
    /\ last' = Op(op, fid, value, flag, store[1])
    /\ ret' = r.out
    /\ calls' = r.calls
    /\ UNCHANGED <<sched, fields, lists, classes, regS, regG>>

\* m.loads_from_dict(data)
NLoads == \E data \in NestData : Done(obj_loads_from_dict(Heap, M, data), "loads", 2, data, FALSE)

\* m.reset()
NReset == Done(obj_reset(Heap, M), "reset", 2, None, FALSE)

\* m.dumps(raw)
NDumps == \E raw \in BOOLEAN : Done(obj_dumps(Heap, M, raw), "dumps", 0, None, raw)

\* m.name1, m.items, m.child
NRead == \E fid \in {1, 2, 3} : Done(obj_get(Heap, M, fields[fid]), "get", fid, None, FALSE)

\* m.name1 = 1
NWrite ==
    \E fid \in {1} : Done(obj_set(Heap, M, fields[fid], PyInt(1)), "set", fid, PyInt(1), FALSE)

\* m.child.x = 1, when m.child is a model
NWriteChild ==
    LET child == obj_get(Heap, M, fields[3])
    IN /\ IsModel(child.out)
       /\ Done(obj_set(child, child.out, fields[5], PyInt(1)), "set", 5, PyInt(1), FALSE)

NNext == NLoads \/ NReset \/ NDumps \/ NRead \/ NWrite \/ NWriteChild

SpecNest == NInit /\ [][NNext]_vars

----------------------------------------------------------------------------
(* Claims on a model that holds models (SpecNest) *)

\* what a read of the field f returns on an instance that stores nothing for it,
\* when f has no model instanciator
FreshRead(f) ==
    RunFuncs(lists[f.getters_funcs],
             RunFuncs(lists[f.setters_funcs], loads_convert(f, get_instance(f))))

\* the dump of an instance of cls constructed with no data, from the i-th field on
RECURSIVE FreshDump(_, _, _)
FreshDump(cls, raw, i) ==
    IF i > Len(classes[cls].fields) THEN <<>>
    ELSE LET f == fields[classes[cls].fields[i]]
             value == IF f.instanciator \in ModelClasses
                      THEN PyDict(FreshDump(f.instanciator, raw, 1))
                      ELSE IF raw THEN FreshRead(f) ELSE dumps_convert(f, FreshRead(f))
         IN (IF ~raw /\ f.hidden THEN <<>> ELSE <<Entry(get_name(f, raw), value)>>)
            \o FreshDump(cls, raw, i + 1)

\* C11: reset() deletes the slot of every resolved field and nothing else, whatever
\* was written and loaded before, and raises nothing, also when nothing is stored;
\* the dumps of the instance are then those of an instance constructed with no data
\* (None for a plain field, [] for a list field, the dump of a new child for a model
\* field), and the next read of a field materializes its default again.
C11_Step ==
    /\ last'.op = "reset" =>
          /\ ret' = None
          /\ DOMAIN store'[1] = {"parent"}
          /\ store'[1]["parent"] = store[1]["parent"]
          /\ \A raw \in BOOLEAN :
                obj_dumps(HAcc(store', <<>>, None), M, raw).out = PyDict(FreshDump("P", raw, 1))
    /\ (last.op = "reset" /\ last'.op = "get") =>
          LET f == fields[last'.fid]
          IN /\ f.instance_name \in DOMAIN store'[1]
             /\ IF f.instanciator \in ModelClasses
                THEN /\ ret' = Ref(f.instanciator, 2)
                     /\ store'[2] = [k \in {"parent"} |-> M]
                ELSE ret' = FreshRead(f)

ItemsOf(heap) == IF "_items" \in DOMAIN heap[1] THEN heap[1]["_items"].items ELSE <<>>

\* the data is a map with the one key `key`
LoadOf(data, key) == data.t = "dict" /\ Len(data.items) = 1 /\ data.items[1].k = key

\* the entries of the map e that the field g answers to
EntriesFor(g, e) == {i \in 1 .. Len(e.items) : match(g, e.items[i].k)}

\* what an instance dumps for its field g after it loaded the map e and nothing else
LoadedShows(g, e, raw) ==
    LET hits == EntriesFor(g, e)
        given == ValueOf(e.items[CHOOSE i \in hits : \A j \in hits : j <= i])
        read == IF hits = {} THEN FreshRead(g)
                ELSE RunFuncs(lists[g.getters_funcs],
                              RunFuncs(lists[g.setters_funcs], loads_convert(g, given)))
    IN IF raw THEN read ELSE dumps_convert(g, read)

\* the load of N element maps appends N new instances of E to the list, in input
\* order, each with m as its parent, and keeps the list's elements as they were
Appended ==
    LET old == ItemsOf(store)
        new == ItemsOf(store')
        maps == ValueOf(last'.value.items[1]).items
    IN /\ Len(new) = Len(old) + Len(maps)
       /\ SubSeq(new, 1, Len(old)) = old
       /\ \A n \in 1 .. Len(store) : n # 1 => store'[n] = store[n]
       /\ \A i \in 1 .. Len(maps) :
             /\ new[Len(old) + i] = Ref("E", Len(store) + i)
             /\ store'[Len(store) + i]["parent"] = M

\* the i-th child appended by the load
AppendedChild(i) == ItemsOf(store')[Len(ItemsOf(store)) + i]

\* C12: a load of N element maps into the list field appends N new children in input
\* order, parent m, and keeps the elements the list had; each child dumps back to its
\* source map.
C12_Step ==
    (last'.op = "loads" /\ LoadOf(last'.value, "items")) =>
        /\ Appended
        /\ \A i \in 1 .. Len(ValueOf(last'.value.items[1]).items) :
              LET e == ValueOf(ValueOf(last'.value.items[1]).items[i])
              IN e # None =>
                    DictEq(obj_dumps(HAcc(store', <<>>, None), AppendedChild(i), FALSE).out, e)

C12_ListLoad == [][C12_Step]_vars

\* C12 amended: a load of N element maps into the list field appends N new children
\* in input order, parent m, and keeps the elements the list had; each child dumps
\* one entry for each of its fields (each shown field when the dump is not raw): what
\* the write path made of the source map's value for that field, the field's default
\* when the source map has no entry for it.
C12_AmendedStep ==
    (last'.op = "loads" /\ LoadOf(last'.value, "items")) =>
        /\ Appended
        /\ \A i \in 1 .. Len(ValueOf(last'.value.items[1]).items) : \A raw \in BOOLEAN :
              LET e == ValueOf(ValueOf(last'.value.items[1]).items[i])
                  d == obj_dumps(HAcc(store', <<>>, None), AppendedChild(i), raw).out
                  shown == {g \in {4, 5} : raw \/ ~fields[g].hidden}
              IN /\ Keys(d) = {get_name(fields[g], raw) : g \in shown}
                 /\ Len(d.items) = Cardinality(shown)
                 /\ \A g \in shown :
                       DictGet(d, get_name(fields[g], raw)) = LoadedShows(fields[g], e, raw)

C12_ListLoadOfFields == [][C12_AmendedStep]_vars

\* m held one child in the list and loaded one more element map, {"name1": 1}, into
\* it: the new child is the second element and stores what the setter made of 1
C12_Witness ==
    /\ last.op = "loads" /\ LoadOf(last.value, "items")
    /\ last.had /\ last.slot = PyList(<<Ref("E", 2)>>)
    /\ ValueOf(last.value.items[1]).items = <<PyDict(<<Entry("name1", PyInt(1))>>)>>
    /\ store[1]["_items"] = PyList(<<Ref("E", 2), Ref("E", 3)>>)
    /\ lists[7] = <<"Inc">>
    /\ store[3] = [k \in {"parent", "_name1"} |-> IF k = "parent" THEN M ELSE PyInt(2 % Modulus)]

\* the key is neither the name nor the mapping name of a resolved field of P
Unknown(key) ==
    \A i \in 1 .. Len(classes["P"].fields) :
        LET f == fields[classes["P"].fields[i]]
        IN f.name # key /\ f.mapping_name # key

\* the entries of the data whose key is known
RECURSIVE KnownEntries(_)
KnownEntries(entries) ==
    IF entries = <<>> THEN <<>>
    ELSE (IF Unknown(Head(entries).k) THEN <<>> ELSE <<Head(entries)>>)
         \o KnownEntries(Tail(entries))

\* C13: loads_from_dict with None or an empty map changes no slot and runs neither
\* pre_loads nor post_loads; with another map, the keys that are neither the name nor
\* the mapping name of a resolved field are ignored: a map of such keys only changes
\* no slot of any instance (so no dump), and a map that has other keys too is loaded
\* as the map without them.
C13_Step ==
    last'.op = "loads" =>
        LET data == last'.value
            known == PyDict(KnownEntries(data.items))
        IN /\ ret' = None
           /\ (data = None \/ data.items = <<>>) => (store' = store /\ calls' = <<>>)
           /\ (data # None /\ data.items # <<>> /\ known.items = <<>>) =>
                 /\ store' = store
                 /\ calls' = <<<<"pre_loads", data>>, <<"post_loads", None>>>>
                 /\ \A raw \in BOOLEAN :
                       obj_dumps(HAcc(store', <<>>, None), M, raw).out = obj_dumps(Heap, M, raw).out
           /\ (known.items # <<>> /\ known # data) =>
                 store' = Live(obj_loads_from_dict(Heap, M, known).heap)

C13_PermissiveLoad == [][C13_Step]_vars

\* m holds a child in its list and has just loaded {"zz": 1}
C13_Witness ==
    /\ last.op = "loads" /\ last.value = PyDict(<<Entry("zz", PyInt(1))>>)
    /\ calls = <<<<"pre_loads", last.value>>, <<"post_loads", None>>>>
    /\ "_items" \in DOMAIN store[1] /\ Len(store[1]["_items"].items) = 1
    /\ "_name1" \notin DOMAIN store[1]

\* what the slots `now` of a child hold for its field g after it loaded the map sub,
\* when they were `old` before
ChildSlotLoaded(g, sub, old, now) ==
    LET named == IF sub = None THEN {} ELSE EntriesFor(g, sub)
        given == ValueOf(sub.items[CHOOSE i \in named : \A j \in named : j <= i])
    IN IF named = {}
       THEN /\ (g.instance_name \in DOMAIN now) = (g.instance_name \in DOMAIN old)
            /\ g.instance_name \in DOMAIN old => now[g.instance_name] = old[g.instance_name]
       ELSE /\ g.instance_name \in DOMAIN now
            /\ now[g.instance_name] = Composed(lists[g.setters_funcs], Converted(g, given))

\* C16: when m loads {"child": sub} and the value of m.child, made by the field's
\* instanciator if none is stored yet, is a model, the sub-map is loaded into that
\* model: the field holds the same object afterwards, the object's parent is m, the
\* child's fields named in sub take the loaded values, its other fields and every
\* other instance stay as they were.
C16_Step ==
    (last'.op = "loads" /\ LoadOf(last'.value, "child")) =>
        LET sub == ValueOf(last'.value.items[1])
            had == "_child" \in DOMAIN store[1]
            cur == IF had THEN store[1]["_child"] ELSE Ref("E", Len(store) + 1)
            old == IF had THEN store[cur.n] ELSE [k \in {"parent"} |-> M]
        IN IsModel(cur) =>
              /\ "_child" \in DOMAIN store'[1] /\ store'[1]["_child"] = cur
              /\ Len(store') = IF had THEN Len(store) ELSE Len(store) + 1
              /\ store'[cur.n]["parent"] = M
              /\ DOMAIN store'[1] = DOMAIN store[1] \cup {"_child"}
              /\ \A k \in DOMAIN store[1] : store'[1][k] = store[1][k]
              /\ \A i \in 2 .. Len(store) : i # cur.n => store'[i] = store[i]
              /\ \A i \in 1 .. Len(classes["E"].fields) :
                    ChildSlotLoaded(fields[classes["E"].fields[i]], sub, old, store'[cur.n])
              /\ DOMAIN store'[cur.n] \subseteq
                    {"parent"} \cup {fields[classes["E"].fields[i]].instance_name :
                                        i \in 1 .. Len(classes["E"].fields)}

C16_NestedLoad == [][C16_Step]_vars

\* m.child was a model with x written, and m has just loaded {"child": {"name1": 1}}
\* into it
C16_Witness ==
    /\ last.op = "loads"
    /\ last.value = PyDict(<<Entry("child", PyDict(<<Entry("name1", PyInt(1))>>))>>)
    /\ "_child" \in DOMAIN store[1] /\ store[1]["_child"] = Ref("E", 2)
    /\ store[2]["parent"] = M
    /\ "_x" \in DOMAIN store[2] /\ store[2]["_x"] = PyInt(1)
    /\ "_name1" \in DOMAIN store[2]

====
